---- MODULE Spec2Model ----
(***************************************************************************)
(* Model of ios_device/cli/instruments.py: the three streaming commands    *)
(* (networking, sysmontap, stackshot) and the frame callbacks they hand to *)
(* the instruments transport.                                              *)
(*                                                                         *)
(* Values.  Python values that reach the callbacks are heterogeneous, so   *)
(* every value is a record [k, v]: k is the Python type ("int", "bytes",   *)
(* "str", "none") and v a sequence of naturals (the integer itself, the    *)
(* bytes, or the character codes of the string).                           *)
(***************************************************************************)
EXTENDS Integers, Sequences, FiniteSets, TLC

VARIABLES
    pc,           \* which command body is running: "idle", "networking", "sysmontap", "stackshot", "returned"
    delivered,    \* number of callback invocations made by the transport so far
    res,          \* networking: res.parsed of the current result object, [tag, vals] (mutable list)
    netOut,       \* networking: documents handed to print_json, in order
    netLast,      \* networking: outcome of the last callback invocation
    opts,         \* sysmontap: the command's options and closure variables (pid, name, processes, sort, proc_filter, sys_filter)
    rpcProcAttrs, \* sysmontap: rpc.process_attributes
    rpcSysAttrs,  \* sysmontap: rpc.system_attributes
    sysStarted,   \* sysmontap: rpc.sysmontap(on_callback_message, time) has been called
    sysData,      \* sysmontap: the local `data` built by the last callback invocation
    sysLast,      \* sysmontap: outcome of the last callback invocation
    stopSignal,   \* stackshot: threading.Event stopSignal is set
    out,          \* stackshot: the --out option, TRUE when a file was given
    stackOut,     \* stackshot: decoded records emitted (to `out` or print_json), in order
    stackLast     \* stackshot: outcome of the last callback invocation

vars == <<pc, delivered, res, netOut, netLast, opts, rpcProcAttrs, rpcSysAttrs,
          sysStarted, sysData, sysLast, stopSignal, out, stackOut, stackLast>>

netVars == <<res, netOut, netLast>>
sysVars == <<opts, rpcProcAttrs, rpcSysAttrs, sysStarted, sysData, sysLast>>
stackVars == <<stopSignal, out, stackOut, stackLast>>

\* Bound on the number of callback invocations in one session.
MaxFrames == 2

(***************************************************************************)
(* Python values                                                           *)
(***************************************************************************)
IntV(n) == [k |-> "int", v |-> <<n>>]
BytesV(b) == [k |-> "bytes", v |-> b]
StrV(s) == [k |-> "str", v |-> s]
NoneV == [k |-> "none", v |-> <<>>]

Min(a, b) == IF a < b THEN a ELSE b

Zeros(n) == [i \in 1..n |-> 0]

RECURSIVE DecStr(_)
\* str(n) / "%d" formatting of a non-negative integer, as character codes.
DecStr(n) == IF n < 10 THEN <<48 + n>> ELSE DecStr(n \div 10) \o <<48 + (n % 10)>>

RECURSIVE HexStr(_)
\* "%x" formatting (lower case, no leading zeros), as character codes.
HexStr(n) ==
    LET d == n % 16
        c == IF d < 10 THEN 48 + d ELSE 87 + d
    IN IF n < 16 THEN <<c>> ELSE HexStr(n \div 16) \o <<c>>

\* socket.htons on a little-endian host: swap the two bytes of a 16-bit value.
Htons(x) == (x % 256) * 256 + (x \div 256)

\* The c_uint16 `port` field at byte offset 2, read in host (little-endian) order.
PortField(b) == b[3] + 256 * b[4]

\* socket.inet_ntoa of 4 address bytes: "a.b.c.d".
InetNtoa(a) == DecStr(a[1]) \o <<46>> \o DecStr(a[2]) \o <<46>> \o DecStr(a[3]) \o <<46>> \o DecStr(a[4])

(***************************************************************************)
(* socket.inet_ntop(AF_INET6, a): 8 big-endian 16-bit words in hex, the    *)
(* longest (earliest on ties) run of two or more zero words replaced by    *)
(* "::", and the IPv4-compatible / IPv4-mapped forms printed dotted.       *)
(***************************************************************************)
Words6(a) == [i \in 1..8 |-> a[2 * i - 1] * 256 + a[2 * i]]

RECURSIVE ZeroRun(_, _)
ZeroRun(w, i) == IF i > 8 \/ w[i] # 0 THEN 0 ELSE 1 + ZeroRun(w, i + 1)

BestRun(w) ==
    LET starts == {i \in 1..8 : ZeroRun(w, i) >= 2 /\ (i = 1 \/ w[i - 1] # 0)}
    IN IF starts = {} THEN [base |-> 0, len |-> 0]
       ELSE LET b == CHOOSE i \in starts :
                        \A j \in starts : ZeroRun(w, i) > ZeroRun(w, j)
                                          \/ (ZeroRun(w, i) = ZeroRun(w, j) /\ i <= j)
            IN [base |-> b, len |-> ZeroRun(w, b)]

RECURSIVE Ntop6From(_, _, _, _)
Ntop6From(a, w, best, i) ==
    IF i > 8 THEN (IF best.base # 0 /\ best.base + best.len = 9 THEN <<58>> ELSE <<>>)
    ELSE IF best.base # 0 /\ i >= best.base /\ i < best.base + best.len
         THEN (IF i = best.base THEN <<58>> ELSE <<>>) \o Ntop6From(a, w, best, i + 1)
    ELSE LET sep == IF i # 1 THEN <<58>> ELSE <<>>
         IN IF i = 7 /\ best.base = 1 /\ (best.len = 6 \/ (best.len = 5 /\ w[6] = 65535))
            THEN sep \o InetNtoa(SubSeq(a, 13, 16))
            ELSE sep \o HexStr(w[i]) \o Ntop6From(a, w, best, i + 1)

InetNtop6(a) == Ntop6From(a, Words6(a), BestRun(Words6(a)), 1)

\* str(SockAddr4): f"{inet_ntoa(self.addr)}:{htons(self.port)}", addr at offset 4.
SockAddr4Str(b) == InetNtoa(SubSeq(b, 5, 8)) \o <<58>> \o DecStr(Htons(PortField(b)))

\* str(SockAddr6): f"[{inet_ntop(AF_INET6, self.addr)}]:{htons(self.port)}", addr at offset 8.
SockAddr6Str(b) == <<91>> \o InetNtop6(SubSeq(b, 9, 24)) \o <<93, 58>> \o DecStr(Htons(PortField(b)))

\* ctypes sizeof(SockAddr4) = 1+1+2+4+8 and sizeof(SockAddr6) = 1+1+2+4+16+4.
SizeofSockAddr4 == 16
SizeofSockAddr6 == 28

\* str(Struct.from_buffer_copy(x)): TypeError unless x is bytes-like, ValueError
\* when x is shorter than the structure, else the formatted address.
FromBufferCopy4(x) ==
    IF x.k # "bytes" THEN [exc |-> "TypeError", val |-> x]
    ELSE IF Len(x.v) < SizeofSockAddr4 THEN [exc |-> "ValueError", val |-> x]
    ELSE [exc |-> "none", val |-> StrV(SockAddr4Str(x.v))]

FromBufferCopy6(x) ==
    IF x.k # "bytes" THEN [exc |-> "TypeError", val |-> x]
    ELSE IF Len(x.v) < SizeofSockAddr6 THEN [exc |-> "ValueError", val |-> x]
    ELSE [exc |-> "none", val |-> StrV(SockAddr6Str(x.v))]

(***************************************************************************)
(* cmd_networking                                                          *)
(***************************************************************************)
headers ==
    [t \in 0..2 |->
        CASE t = 0 -> <<"InterfaceIndex", "Name">>
          [] t = 1 -> <<"LocalAddress", "RemoteAddress", "InterfaceIndex", "Pid",
                        "RecvBufferSize", "RecvBufferUsed", "SerialNumber", "Kind">>
          [] t = 2 -> <<"RxPackets", "RxBytes", "TxPackets", "TxBytes", "RxDups",
                        "RxOOO", "TxRetx", "MinRTT", "AvgRTT", "ConnectionSerial">>]

msg_type ==
    [t \in 0..2 |->
        CASE t = 0 -> "interface-detection"
          [] t = 1 -> "connection-detected"
          [] t = 2 -> "connection-update"]

\* dict(zip(names, vals)): pairs up to the shorter of the two, in order.
ZipDict(names, vals) ==
    [i \in 1..Min(Len(names), Len(vals)) |-> [name |-> names[i], val |-> vals[i]]]

\* json.dumps raises TypeError on a bytes value; int and str values serialise.
JsonSerialisable(d) == \A i \in 1..Len(d) : d[i].val.k # "bytes"

NoDoc == [type |-> "", rec |-> <<>>]

\* Lines 193-194 / 196-197: data[1][0] is replaced first, then data[1][1]; an
\* exception in the second conversion leaves the first replacement in place.
ConvertAddresses(v, size) ==
    LET F(x) == IF size = SizeofSockAddr4 THEN FromBufferCopy4(x) ELSE FromBufferCopy6(x)
        a == F(v[1])
        v1 == [v EXCEPT ![1] = a.val]
    IN IF a.exc # "none" THEN [vals |-> v, exc |-> a.exc]
       ELSE IF Len(v) < 2 THEN [vals |-> v1, exc |-> "IndexError"]
       ELSE LET b == F(v[2])
            IN IF b.exc # "none" THEN [vals |-> v1, exc |-> b.exc]
               ELSE [vals |-> [v1 EXCEPT ![2] = b.val], exc |-> "none"]

\* Lines 191-197: the address fields of a connection-detected frame are
\* rewritten in place in res.parsed.
ClassifyAddresses(data) ==
    LET v == data.vals
    IN IF data.tag # 1 THEN [vals |-> v, exc |-> "none"]
       ELSE IF Len(v) = 0 THEN [vals |-> v, exc |-> "IndexError"]
       ELSE IF v[1].k \notin {"bytes", "str"} THEN [vals |-> v, exc |-> "TypeError"]
       ELSE IF Len(v[1].v) = 16 THEN ConvertAddresses(v, SizeofSockAddr4)
       ELSE IF Len(v[1].v) = 28 THEN ConvertAddresses(v, SizeofSockAddr6)
       ELSE [vals |-> v, exc |-> "none"]

\* cmd_networking.on_callback_message(res), lines 190-198.  The result holds
\* res.parsed after the call, the exception that escaped the callback
\* ("none" when it returned), and the document handed to print_json.
OnNetMessage(data) ==
    LET c == ClassifyAddresses(data)
        parsed == [tag |-> data.tag, vals |-> c.vals]
        d == ZipDict(headers[data.tag], c.vals)
    IN IF c.exc # "none"
       THEN [parsed |-> parsed, exc |-> c.exc, emitted |-> FALSE, doc |-> NoDoc]
       ELSE IF data.tag \notin DOMAIN msg_type
       THEN [parsed |-> parsed, exc |-> "KeyError", emitted |-> FALSE, doc |-> NoDoc]
       ELSE IF ~JsonSerialisable(d)
       THEN [parsed |-> parsed, exc |-> "TypeError", emitted |-> FALSE, doc |-> NoDoc]
       ELSE [parsed |-> parsed, exc |-> "none", emitted |-> TRUE,
             doc |-> [type |-> msg_type[data.tag], rec |-> d]]

\* Raw frames the transport may deliver to the networking callback.
Addr4(a, b, c, d, p1, p2) == BytesV(<<16, 2, p1, p2, a, b, c, d>> \o Zeros(8))
Addr6(p1, p2, addr) == BytesV(<<28, 30, p1, p2, 0, 0, 0, 0>> \o addr \o Zeros(4))
Ints(n) == [i \in 1..n |-> IntV(i)]

NetFrames ==
    { [tag |-> 0, vals |-> <<IntV(1), StrV(<<101, 110, 48>>)>>],
      [tag |-> 1, vals |-> <<Addr4(127, 0, 0, 1, 31, 144), Addr4(10, 0, 0, 2, 0, 80)>> \o Ints(6)],
      [tag |-> 1, vals |-> <<Addr4(192, 168, 1, 10, 1, 187), Addr4(192, 168, 1, 11, 1, 187)>> \o Ints(6)],
      [tag |-> 1, vals |-> <<Addr6(0, 80, <<254, 128>> \o Zeros(13) \o <<1>>),
                             Addr6(1, 187, Zeros(15) \o <<1>>)>> \o Ints(6)],
      [tag |-> 1, vals |-> <<BytesV(<<1, 2, 3, 4>>), BytesV(<<1, 2, 3, 4>>)>> \o Ints(6)],
      [tag |-> 2, vals |-> Ints(10)],
      [tag |-> 2, vals |-> Ints(9)],
      [tag |-> 3, vals |-> Ints(2)] }

NetOutcome(kind, data, r) ==
    [kind |-> kind, tag |-> data.tag, nvals |-> Len(data.vals),
     exc |-> r.exc, emitted |-> r.emitted, doc |-> r.doc]

\* with InstrumentsBase(...) as rpc: rpc.networking(on_callback_message)
CmdNetworking ==
    /\ pc = "idle"
    /\ pc' = "networking"
    /\ UNCHANGED <<delivered, netVars, sysVars, stackVars>>

\* The transport parses a new message into a result object and calls the callback.
NetFrame(f) ==
    /\ pc = "networking"
    /\ delivered < MaxFrames
    /\ LET r == OnNetMessage(f)
       IN /\ res' = r.parsed
          /\ netOut' = IF r.emitted THEN Append(netOut, r.doc) ELSE netOut
          /\ netLast' = NetOutcome("first", f, r)
    /\ delivered' = delivered + 1
    /\ UNCHANGED <<pc, sysVars, stackVars>>

\* The callback is called again with the result object it was last given.
NetRedeliver ==
    /\ pc = "networking"
    /\ netLast.kind # "none"
    /\ delivered < MaxFrames
    /\ LET r == OnNetMessage(res)
       IN /\ res' = r.parsed
          /\ netOut' = IF r.emitted THEN Append(netOut, r.doc) ELSE netOut
          /\ netLast' = NetOutcome("again", res, r)
    /\ delivered' = delivered + 1
    /\ UNCHANGED <<pc, sysVars, stackVars>>

(***************************************************************************)
(* cmd_sysmontap: session setup                                            *)
(***************************************************************************)
Range(s) == {s[i] : i \in 1..Len(s)}

\* rpc.device_info.sysmonProcessAttributes() / sysmonSystemAttributes(): the
\* attribute vocabularies the device advertises, in device order.
ProcVocab == <<"pid", "name", "cpuUsage", "memResidentSize">>
SysVocab == <<"vmFreeCount", "netBytesIn", "diskBytesRead">>

\* rpc.process_attributes / rpc.system_attributes before the command changes them.
DefaultProcAttrs == ProcVocab
DefaultSysAttrs == SysVocab

\* --proc_filter / --sys_filter after split(','); <<>> stands for an omitted option.
ProcRequests ==
    { <<>>, <<"cpuUsage">>, <<"cpuUsage", "pid", "cpuUsage">>, <<"bogusAttr">> }
SysRequests == { <<>>, <<"netBytesIn", "vmFreeCount">>, <<"bogusAttr">> }

\* list(set(xs)): the distinct elements of xs, in an order the code does not
\* control (set iteration order depends on string hashing).
ListOfSet(xs) ==
    LET S == Range(xs)
        n == Cardinality(S)
    IN {f \in [1..n -> S] : \A i, j \in 1..n : f[i] = f[j] => i = j}

\* Mutant of ResolveProcFilter: pid and name are not forced in.
ResolveProcFilterUnforced(req) == ListOfSet(req)

\* Lines 257-259: split, extend(['name', 'pid']), list(set(...)).
ResolveProcFilter(req) == ListOfSet(req \o <<"name", "pid">>)

\* Lines 260-263 and 269-272: every requested name must be advertised.
AllAdvertised(filter, vocab) == \A i \in 1..Len(filter) : filter[i] \in Range(vocab)

\* rpc.application_listing(bundle_id).get('ExecutableName')
ExecutableName == StrV(<<65>>)

PidOptions == {NoneV, IntV(0), IntV(1)}
NameOptions == {NoneV, StrV(<<65>>)}
SortOptions == {"", "cpuUsage", "memResidentSize"}

NoSysOutcome ==
    [kind |-> "none", exc |-> "none", emitted |-> "nothing", doc |-> <<>>,
     parsed |-> [isList |-> FALSE, rows |-> <<>>]]

\* The body of cmd_sysmontap under `with InstrumentsBase(...) as rpc`, lines 255-278.
\* On `return` the closure's proc_filter / sys_filter are dead and recorded as <<>>.
CmdSysmontap(pid, name, bundle_id, processes, sort, procReq, sysReq) ==
    /\ pc = "idle"
    /\ \E pf \in (IF procReq # <<>> THEN ResolveProcFilter(procReq) ELSE {<<>>}) :
         LET o == [pid |-> pid, name |-> name, bundle_id |-> bundle_id, processes |-> processes,
                   sort |-> sort, proc_filter |-> pf, sys_filter |-> sysReq,
                   procReq |-> procReq, sysReq |-> sysReq]
         IN IF procReq # <<>> /\ ~AllAdvertised(pf, ProcVocab)
            THEN /\ pc' = "returned"
                 /\ opts' = [o EXCEPT !.proc_filter = <<>>, !.sys_filter = <<>>]
                 /\ UNCHANGED <<rpcProcAttrs, rpcSysAttrs, sysStarted>>
            ELSE /\ rpcProcAttrs' = IF procReq # <<>> THEN pf ELSE rpcProcAttrs
                 /\ IF sysReq # <<>> /\ ~AllAdvertised(sysReq, SysVocab)
                    THEN /\ pc' = "returned"
                         /\ opts' = [o EXCEPT !.proc_filter = <<>>, !.sys_filter = <<>>]
                         /\ UNCHANGED <<rpcSysAttrs, sysStarted>>
                    ELSE /\ rpcSysAttrs' = IF sysReq # <<>> THEN sysReq ELSE rpcSysAttrs
                         /\ opts' = [o EXCEPT !.name = IF bundle_id THEN ExecutableName ELSE name]
                         /\ sysStarted' = TRUE
                         /\ pc' = "sysmontap"
    /\ UNCHANGED <<delivered, sysData, sysLast, netVars, stackVars>>

(***************************************************************************)
(* cmd_sysmontap: the frame callback                                       *)
(***************************************************************************)
\* Python truthiness of a value.
Truthy(x) ==
    CASE x.k = "none" -> FALSE
      [] x.k = "int" -> x.v[1] # 0
      [] OTHER -> Len(x.v) > 0

\* f'{x}' of a value, as character codes.
FormatStr(x) ==
    CASE x.k = "none" -> <<78, 111, 110, 101>>
      [] x.k = "int" -> DecStr(x.v[1])
      [] OTHER -> x.v

\* Ordered name -> value mappings (attrs.__dict__, dict(zip(...))) are
\* sequences of [name, val] with distinct names.
HasKey(d, n) == \E i \in 1..Len(d) : d[i].name = n
Get(d, n) == d[CHOOSE i \in 1..Len(d) : d[i].name = n].val

\* d[key] = rec on an insertion-ordered dict of [key, rec] entries: an existing
\* key keeps its position and gets the new value, a new key goes last.
DictPut(d, key, rec) ==
    IF \E i \in 1..Len(d) : d[i].key = key
    THEN [i \in 1..Len(d) |-> IF d[i].key = key THEN [key |-> key, rec |-> rec] ELSE d[i]]
    ELSE Append(d, [key |-> key, rec |-> rec])

RECURSIVE SeqLess(_, _)
\* Lexicographic order of two sequences of naturals (str < str).
SeqLess(a, b) ==
    IF Len(b) = 0 THEN FALSE
    ELSE IF Len(a) = 0 THEN TRUE
    ELSE IF Head(a) # Head(b) THEN Head(a) < Head(b)
    ELSE SeqLess(Tail(a), Tail(b))

\* a < b for two values of the same comparable type.
ValLess(a, b) == IF a.k = "int" THEN a.v[1] < b.v[1] ELSE SeqLess(a.v, b.v)

\* The sort key of one item: d[1].get(sort, 0), and `or 0` where the code has it.
SortKeyPlain(rec, sort) == IF HasKey(rec, sort) THEN Get(rec, sort) ELSE IntV(0)
SortKeyOrZero(rec, sort) ==
    LET x == SortKeyPlain(rec, sort) IN IF Truthy(x) THEN x ELSE IntV(0)

\* sorted() raises TypeError as soon as it compares None with anything or two
\* values of different types; with two or more items every item is compared.
SortRaises(keys) ==
    /\ Len(keys) >= 2
    /\ \/ \E i \in 1..Len(keys) : keys[i].k = "none"
       \/ \E i, j \in 1..Len(keys) : keys[i].k # keys[j].k

RECURSIVE InsertDesc(_, _, _)
\* Place x after every element whose key is not smaller than x's key.
InsertDesc(sorted, x, j) ==
    IF j > Len(sorted) THEN Append(sorted, x)
    ELSE IF ValLess(sorted[j].k, x.k)
         THEN SubSeq(sorted, 1, j - 1) \o <<x>> \o SubSeq(sorted, j, Len(sorted))
         ELSE InsertDesc(sorted, x, j + 1)

RECURSIVE SortDescFrom(_, _, _)
SortDescFrom(pairs, i, acc) ==
    IF i > Len(pairs) THEN acc ELSE SortDescFrom(pairs, i + 1, InsertDesc(acc, pairs[i], 1))

\* sorted(items, key=..., reverse=True): descending, equal keys keep input order.
SortedReverse(items, keys) ==
    LET pairs == [i \in 1..Len(items) |-> [it |-> items[i], k |-> keys[i]]]
        sorted == SortDescFrom(pairs, 1, <<>>)
    IN [i \in 1..Len(sorted) |-> sorted[i].it]

\* Lines 236-238: the per-row sort, key d[1].get(sort, 0).
RowSortKeys(items, sort) == [i \in 1..Len(items) |-> SortKeyPlain(items[i].rec, sort)]
\* Lines 247-248: the processes-only sort, key d[1].get(sort, 0) or 0.
ProcessesSortKeys(items, sort) == [i \in 1..Len(items) |-> SortKeyOrZero(items[i].rec, sort)]

RECURSIVE ProcLoop(_, _, _, _, _)
\* Lines 224-235: the loop over one row's processes.  acc holds
\* data[index]['Processes'] (row), processes_data (pdata) and the exception raised.
ProcLoop(procs, i, fields, o, acc) ==
    IF i > Len(procs) \/ acc.exc # "none" THEN acc
    ELSE LET p == procs[i]
             attrs == ZipDict(fields, p.vals)
             next(a) == ProcLoop(procs, i + 1, fields, o, a)
         IN IF Len(p.vals) # Len(fields) THEN [acc EXCEPT !.exc = "TypeError"]
            ELSE IF Truthy(o.pid) /\ o.pid # IntV(p.pid) THEN next(acc)
            ELSE IF ~HasKey(attrs, "name") THEN [acc EXCEPT !.exc = "AttributeError"]
            ELSE IF Truthy(o.name) /\ Get(attrs, "name") # o.name THEN next(acc)
            ELSE IF o.processes
                 THEN next([acc EXCEPT !.pdata = DictPut(@, FormatStr(Get(attrs, "name")), attrs)])
            ELSE next([acc EXCEPT !.row = DictPut(@, FormatStr(Get(attrs, "name")), attrs)])

RECURSIVE RowLoop(_, _, _, _, _, _)
\* Lines 221-245: the loop over the rows of res.parsed.  acc holds data (the
\* rows rebuilt so far), processes_data and the exception raised.
RowLoop(rows, index, fields, sysAttrs, o, acc) ==
    IF index > Len(rows) \/ acc.exc # "none" THEN acc
    ELSE LET row == rows[index]
             pl == IF row.hasProcesses
                   THEN ProcLoop(row.Processes, 1, fields, o,
                                 [row |-> <<>>, pdata |-> acc.pdata, exc |-> "none"])
                   ELSE [row |-> <<>>, pdata |-> acc.pdata, exc |-> "none"]
             keys == RowSortKeys(pl.row, o.sort)
             exc == IF pl.exc # "none" THEN pl.exc
                    ELSE IF row.hasProcesses /\ SortRaises(keys) THEN "TypeError"
                    ELSE "none"
             new == [hasProcesses |-> row.hasProcesses,
                     Processes |-> IF row.hasProcesses /\ exc = "none"
                                   THEN SortedReverse(pl.row, keys) ELSE <<>>,
                     hasSystem |-> row.hasSystem,
                     System |-> IF row.hasSystem THEN ZipDict(sysAttrs, row.System) ELSE <<>>,
                     hasSystemAttributes |-> row.hasSystemAttributes /\ ~row.hasSystem,
                     hasProcessesAttributes |-> row.hasProcessesAttributes /\ ~row.hasSystem]
         IN IF exc # "none" THEN [acc EXCEPT !.exc = exc]
            ELSE RowLoop(rows, index + 1, fields, sysAttrs, o,
                         [data |-> Append(acc.data, new), pdata |-> pl.pdata, exc |-> "none"])

\* cmd_sysmontap.on_callback_message(res), lines 217-251.  `parsed` is
\* [isList, rows]; the result is the exception that escaped ("none" when the
\* callback returned), the local `data`, and what was handed to print_json:
\* "nothing", "processes" (doc is the sorted processes_data) or "print_json"
\* (line 251 passes the function print_json itself, not data).
OnSysMessage(parsed, o, procAttrs, sysAttrs) ==
    IF ~parsed.isList
    THEN [kind |-> "call", exc |-> "none", data |-> <<>>, emitted |-> "nothing", doc |-> <<>>]
    ELSE LET fields == IF o.proc_filter # <<>> THEN o.proc_filter ELSE procAttrs
             r == RowLoop(parsed.rows, 1, fields, sysAttrs, o,
                          [data |-> <<>>, pdata |-> <<>>, exc |-> "none"])
             keys == ProcessesSortKeys(r.pdata, o.sort)
         IN IF r.exc # "none"
            THEN [kind |-> "call", exc |-> r.exc, data |-> <<>>, emitted |-> "nothing", doc |-> <<>>]
            ELSE IF o.processes
            THEN IF SortRaises(keys)
                 THEN [kind |-> "call", exc |-> "TypeError", data |-> <<>>,
                       emitted |-> "nothing", doc |-> <<>>]
                 ELSE [kind |-> "call", exc |-> "none", data |-> r.data,
                       emitted |-> "processes", doc |-> SortedReverse(r.pdata, keys)]
            ELSE [kind |-> "call", exc |-> "none", data |-> r.data,
                  emitted |-> "print_json", doc |-> <<>>]

\* What the device sends.  A process is a mapping from attribute name to value;
\* the device reports each process's values in the order of the configured
\* process attributes, and the system values in the order of the configured
\* system attributes.
Process(pid, name, cpu, mem) ==
    [a \in Range(ProcVocab) |->
        CASE a = "pid" -> IntV(pid)
          [] a = "name" -> StrV(<<name>>)
          [] a = "cpuUsage" -> cpu
          [] a = "memResidentSize" -> IntV(mem)]

SystemValues == [a \in Range(SysVocab) |-> IntV(Len(a))]

ProcA == Process(1, 65, IntV(10), 3)
ProcB == Process(2, 66, IntV(10), 5)
ProcA2 == Process(3, 65, IntV(5), 7)
ProcC == Process(4, 67, NoneV, 1)
ProcK == Process(0, 75, IntV(1), 9)

RowTemplate(hasP, procs, short, hasS, hasAttrs) ==
    [hasProcesses |-> hasP, procs |-> procs, short |-> short, hasSystem |-> hasS,
     hasAttrs |-> hasAttrs]

FrameTemplates ==
    { [isList |-> TRUE, rows |-> <<RowTemplate(TRUE, <<ProcA, ProcB, ProcA2>>, FALSE, FALSE, TRUE),
                                   RowTemplate(FALSE, <<>>, FALSE, TRUE, FALSE)>>],
      [isList |-> TRUE, rows |-> <<RowTemplate(TRUE, <<ProcC, ProcB>>, FALSE, TRUE, TRUE)>>],
      [isList |-> TRUE, rows |-> <<RowTemplate(TRUE, <<ProcK, ProcA>>, FALSE, FALSE, FALSE),
                                   RowTemplate(TRUE, <<ProcB>>, FALSE, FALSE, FALSE)>>],
      [isList |-> TRUE, rows |-> <<RowTemplate(TRUE, <<ProcB>>, TRUE, FALSE, FALSE)>>],
      [isList |-> FALSE, rows |-> <<>>] }

\* res.parsed for a template under the configured attribute lists.  A `short`
\* row lacks the last value of every process.
RenderRow(t, procAttrs, sysAttrs) ==
    LET n == IF t.short THEN Len(procAttrs) - 1 ELSE Len(procAttrs)
    IN [hasProcesses |-> t.hasProcesses,
        Processes |-> [i \in 1..Len(t.procs) |->
                          [pid |-> t.procs[i]["pid"].v[1],
                           vals |-> [j \in 1..n |-> t.procs[i][procAttrs[j]]]]],
        hasSystem |-> t.hasSystem,
        System |-> IF t.hasSystem THEN [j \in 1..Len(sysAttrs) |-> SystemValues[sysAttrs[j]]]
                   ELSE <<>>,
        hasSystemAttributes |-> t.hasAttrs,
        hasProcessesAttributes |-> t.hasAttrs]

RenderFrame(t, procAttrs, sysAttrs) ==
    [isList |-> t.isList,
     rows |-> [i \in 1..Len(t.rows) |-> RenderRow(t.rows[i], procAttrs, sysAttrs)]]

\* The transport delivers one sysmontap frame to the callback.
SysFrame(t) ==
    /\ pc = "sysmontap"
    /\ delivered < MaxFrames
    /\ LET parsed == RenderFrame(t, rpcProcAttrs, rpcSysAttrs)
           r == OnSysMessage(parsed, opts, rpcProcAttrs, rpcSysAttrs)
       IN /\ sysData' = r.data
          /\ sysLast' = [kind |-> r.kind, exc |-> r.exc, emitted |-> r.emitted, doc |-> r.doc,
                         parsed |-> parsed]
    /\ delivered' = delivered + 1
    /\ UNCHANGED <<pc, opts, rpcProcAttrs, rpcSysAttrs, sysStarted, netVars, stackVars>>

(***************************************************************************)
(* stackshot                                                               *)
(***************************************************************************)
\* b'\x07X\xa2Y'
Signature == <<7, 88, 162, 89>>

\* Mutant of StartsWith: prefix in buf (a scan at every offset).
FoundAnywhere(buf, prefix) ==
    \E k \in 0..Len(buf) : Len(buf) >= k + Len(prefix) /\ SubSeq(buf, k + 1, k + Len(prefix)) = prefix

\* buf.startswith(prefix)
StartsWith(buf, prefix) ==
    /\ Len(buf) >= Len(prefix)
    /\ SubSeq(buf, 1, Len(prefix)) = prefix

\* Messages the transport may deliver: parseError is
\* `type(res.plist) is InstrumentRPCParseError`, buf is res.raw.get_selector().
StackFrames ==
    { [parseError |-> TRUE, buf |-> Signature \o <<1, 2>>],
      [parseError |-> TRUE, buf |-> Signature \o <<3>>],
      [parseError |-> TRUE, buf |-> <<0, 0>> \o Signature \o <<1, 2>>],
      [parseError |-> TRUE, buf |-> <<7, 88, 162>>],
      [parseError |-> TRUE, buf |-> <<1, 2, 3, 4, 5>>],
      [parseError |-> FALSE, buf |-> Signature \o <<1, 2>>] }

\* stackshot.on_callback_message(res), lines 349-359.  `parses` is whether
\* kc_data_parse(buf) returns a record or raises.
OnStackMessage(f, parses) ==
    IF f.parseError /\ StartsWith(f.buf, Signature)
    THEN [matched |-> TRUE, set |-> TRUE, decoded |-> f.buf,
          exc |-> IF parses THEN "none" ELSE "ParseError", emitted |-> parses]
    ELSE [matched |-> FALSE, set |-> FALSE, decoded |-> <<>>, exc |-> "none", emitted |-> FALSE]

NoStackOutcome ==
    [kind |-> "none", parseError |-> FALSE, buf |-> <<>>, matched |-> FALSE, decoded |-> <<>>,
     exc |-> "none", emitted |-> FALSE, stoppedBefore |-> FALSE]

\* with InstrumentsBase(...) as rpc: stopSignal = threading.Event();
\* rpc.core_profile_session(on_callback_message, stopSignal)
CmdStackshot(o) ==
    /\ pc = "idle"
    /\ pc' = "stackshot"
    /\ out' = o
    /\ stopSignal' = FALSE
    /\ UNCHANGED <<delivered, stackOut, stackLast, netVars, sysVars>>

\* The transport delivers one message to the stackshot callback.
StackFrame(f, parses) ==
    /\ pc = "stackshot"
    /\ delivered < MaxFrames
    /\ LET r == OnStackMessage(f, parses)
       IN /\ stopSignal' = (stopSignal \/ r.set)
          /\ stackOut' = IF r.emitted
                         THEN Append(stackOut, [to |-> IF out THEN "file" ELSE "print_json",
                                                kc_data |-> r.decoded])
                         ELSE stackOut
          /\ stackLast' = [kind |-> "call", parseError |-> f.parseError, buf |-> f.buf,
                           matched |-> r.matched, decoded |-> r.decoded, exc |-> r.exc,
                           emitted |-> r.emitted, stoppedBefore |-> stopSignal]
    /\ delivered' = delivered + 1
    /\ UNCHANGED <<pc, out, netVars, sysVars>>

\* rpc.core_profile_session returns once the stop signal is set; the receiver
\* may still deliver messages between the signal and this return.
StackSessionEnd ==
    /\ pc = "stackshot"
    /\ stopSignal
    /\ pc' = "returned"
    /\ UNCHANGED <<delivered, netVars, sysVars, stackVars>>

(***************************************************************************)
(* Specification                                                           *)
(***************************************************************************)
Init ==
    /\ pc = "idle"
    /\ delivered = 0
    /\ res = [tag |-> 0, vals |-> <<>>]
    /\ netOut = <<>>
    /\ netLast = [kind |-> "none", tag |-> 0, nvals |-> 0, exc |-> "none", emitted |-> FALSE,
                  doc |-> NoDoc]
    /\ opts = [pid |-> NoneV, name |-> NoneV, bundle_id |-> FALSE, processes |-> FALSE,
               sort |-> "", proc_filter |-> <<>>, sys_filter |-> <<>>,
               procReq |-> <<>>, sysReq |-> <<>>]
    /\ rpcProcAttrs = DefaultProcAttrs
    /\ rpcSysAttrs = DefaultSysAttrs
    /\ sysStarted = FALSE
    /\ sysData = <<>>
    /\ sysLast = NoSysOutcome
    /\ stopSignal = FALSE
    /\ out = FALSE
    /\ stackOut = <<>>
    /\ stackLast = NoStackOutcome

Next ==
    \/ CmdNetworking
    \/ \E f \in NetFrames : NetFrame(f)
    \/ NetRedeliver
    \/ \E pid \in PidOptions, name \in NameOptions, bundle_id \in BOOLEAN, processes \in BOOLEAN,
          sort \in SortOptions, procReq \in ProcRequests, sysReq \in SysRequests :
          CmdSysmontap(pid, name, bundle_id, processes, sort, procReq, sysReq)
    \/ \E t \in FrameTemplates : SysFrame(t)
    \/ \E o \in BOOLEAN : CmdStackshot(o)
    \/ \E f \in StackFrames, parses \in BOOLEAN : StackFrame(f, parses)
    \/ StackSessionEnd

Spec == Init /\ [][Next]_vars

(***************************************************************************)
(* Claims                                                                  *)
(***************************************************************************)

\* buf contains `sig` at offset k (0-based).
OccursAt(buf, sig, k) == Len(buf) >= k + Len(sig) /\ SubSeq(buf, k + 1, k + Len(sig)) = sig
Contains(buf, sig) == \E k \in 0..Len(buf) : OccursAt(buf, sig, k)
FirstOffset(buf, sig) == CHOOSE k \in 0..Len(buf) : OccursAt(buf, sig, k) /\ \A m \in 0..(k - 1) : ~OccursAt(buf, sig, m)

\* C1: in a stackshot session at most one core-dump record is decoded and emitted,
\* whatever messages are delivered to the callback: once a signature-bearing buffer
\* has been matched and the stop signal set, later messages are ignored.
C1_AtMostOneCoreDump == Len(stackOut) <= 1

\* A requested subset names an attribute the device does not advertise.
RequestInvalid ==
    \/ \E i \in 1..Len(opts.procReq) : opts.procReq[i] \notin Range(ProcVocab)
    \/ \E i \in 1..Len(opts.sysReq) : opts.sysReq[i] \notin Range(SysVocab)

\* C2: when a requested process or system subset contains a name the device does
\* not advertise, the sysmontap subscription is never started and neither
\* rpc.process_attributes nor rpc.system_attributes is changed.
C2_RejectedSetupLeavesNoState ==
    (pc \in {"sysmontap", "returned"} /\ RequestInvalid)
        => /\ ~sysStarted
           /\ pc = "returned"
           /\ rpcProcAttrs = DefaultProcAttrs
           /\ rpcSysAttrs = DefaultSysAttrs

\* C3: a networking frame whose number of values differs from the length of its
\* category's schema is dropped: no record is emitted for it and the callback
\* returns normally, so the session goes on.
C3_MismatchedFrameDropped ==
    (netLast.kind # "none" /\ netLast.tag \in DOMAIN headers
        /\ netLast.nvals # Len(headers[netLast.tag]))
        => (~netLast.emitted /\ netLast.exc = "none")

\* The names of the device vocabulary that are requested or forced, in device order.
DeviceOrderSelection(req) ==
    SelectSeq(ProcVocab, LAMBDA a : a \in Range(req) \cup {"pid", "name"})

\* C4 (as claimed): the resolved process schema is the requested names plus pid and
\* name, without duplicates, in device-advertised order.
C4_ResolvedSchemaDeviceOrder ==
    (pc = "sysmontap" /\ opts.procReq # <<>>)
        => rpcProcAttrs = DeviceOrderSelection(opts.procReq)

\* C4 (amended): the resolved process schema holds exactly the requested names plus
\* pid and name, each once, all of them advertised; its order is not fixed.
C4_ResolvedSchemaForcedSet ==
    (pc = "sysmontap" /\ opts.procReq # <<>>)
        => /\ Range(rpcProcAttrs) = Range(opts.procReq) \cup {"pid", "name"}
           /\ \A i, j \in 1..Len(rpcProcAttrs) : rpcProcAttrs[i] = rpcProcAttrs[j] => i = j
           /\ Range(rpcProcAttrs) \subseteq Range(ProcVocab)
           /\ opts.proc_filter = rpcProcAttrs

C4_Witness ==
    /\ pc = "sysmontap"
    /\ opts.procReq = <<"cpuUsage">>
    /\ Range(rpcProcAttrs) = {"pid", "name", "cpuUsage"}
    /\ Len(rpcProcAttrs) = Cardinality(Range(rpcProcAttrs))

\* C5: for a sysmontap frame handled while processesOnly is false, the document
\* handed to the sink is the decoded System+Processes document built from the frame.
C5_EmitsDecodedDocument ==
    (sysLast.kind = "call" /\ sysLast.parsed.isList /\ ~opts.processes /\ sysLast.exc = "none")
        => /\ sysLast.emitted \notin {"nothing", "print_json"}
           /\ sysLast.doc = sysData

\* Every process of the frame carries one value per configured attribute.
WellFormed(parsed) ==
    /\ parsed.isList
    /\ \A r \in 1..Len(parsed.rows) : \A i \in 1..Len(parsed.rows[r].Processes) :
          Len(parsed.rows[r].Processes[i].vals) = Len(rpcProcAttrs)

RECURSIVE ProcsFrom(_, _)
\* The processes of a frame in device-reported order, over all its rows.
ProcsFrom(rows, r) ==
    IF r > Len(rows) THEN <<>> ELSE rows[r].Processes \o ProcsFrom(rows, r + 1)

PosOf(procs, pid) == CHOOSE i \in 1..Len(procs) : procs[i].pid = pid
RecPid(rec) == Get(rec, "pid").v[1]

\* The numeric value of the sort key, 0 when the record lacks it or it is not set.
NumKey(rec, sort) ==
    IF HasKey(rec, sort) /\ Get(rec, sort).k = "int" THEN Get(rec, sort).v[1] ELSE 0

\* L is in descending order of the sort key, equal keys in device-reported order.
OrderedStable(L, procs, sort) ==
    \A i, j \in 1..Len(L) : i < j =>
        \/ NumKey(L[i].rec, sort) > NumKey(L[j].rec, sort)
        \/ /\ NumKey(L[i].rec, sort) = NumKey(L[j].rec, sort)
           /\ PosOf(procs, RecPid(L[i].rec)) < PosOf(procs, RecPid(L[j].rec))

\* No two processes of the frame have the same name.
DistinctNames(parsed) ==
    LET procs == ProcsFrom(parsed.rows, 1)
    IN \A i, j \in 1..Len(procs) :
          Get(ZipDict(rpcProcAttrs, procs[i].vals), "name")
             = Get(ZipDict(rpcProcAttrs, procs[j].vals), "name") => i = j

\* C6: on both paths the process output is ordered by descending numeric value of
\* the sort key, a missing or unset key counting as 0 and never causing an error,
\* and records with equal values keep their device-reported order.  (Stated for
\* frames whose process names are distinct.)
C6_SortedDescendingStableNoError ==
    (sysLast.kind = "call" /\ WellFormed(sysLast.parsed) /\ DistinctNames(sysLast.parsed))
        => /\ sysLast.exc = "none"
           /\ opts.processes
                 => OrderedStable(sysLast.doc, ProcsFrom(sysLast.parsed.rows, 1), opts.sort)
           /\ ~opts.processes
                 => \A r \in 1..Len(sysData) :
                       OrderedStable(sysData[r].Processes, sysLast.parsed.rows[r].Processes,
                                     opts.sort)

PassesFilters(p, o) ==
    LET attrs == ZipDict(rpcProcAttrs, p.vals)
    IN /\ o.pid # NoneV => Get(attrs, "pid") = o.pid
       /\ o.name # NoneV => Get(attrs, "name") = o.name

\* C8: with processesOnly set, the records emitted for a frame are exactly the
\* processes of the frame that pass the filters, one record per such process.
\* (Stated for a pid filter other than 0.)
C8_ProcessesOnlyExactlyFiltered ==
    (sysLast.kind = "call" /\ opts.processes /\ WellFormed(sysLast.parsed) /\ sysLast.exc = "none"
        /\ opts.pid # IntV(0))
        => LET procs == ProcsFrom(sysLast.parsed.rows, 1)
               pass == {i \in 1..Len(procs) : PassesFilters(procs[i], opts)}
           IN /\ sysLast.emitted = "processes"
              /\ Len(sysLast.doc) = Cardinality(pass)
              /\ {RecPid(sysLast.doc[i].rec) : i \in 1..Len(sysLast.doc)}
                    = {procs[i].pid : i \in pass}

\* C9: a networking frame whose category tag is not 0, 1 or 2 is dropped without
\* emitting a record and without an error escaping the callback.
C9_UnknownCategoryNonFatal ==
    (netLast.kind # "none" /\ netLast.tag \notin {0, 1, 2})
        => (~netLast.emitted /\ netLast.exc = "none")

\* C10: delivering the same frame to the networking callback a second time has the
\* outcome of the first delivery: the same emitted record, and no error.
C10_RedeliveryIdempotent ==
    [][netLast'.kind = "again" =>
          /\ netLast'.exc = netLast.exc
          /\ netLast'.emitted = netLast.emitted
          /\ netLast'.doc = netLast.doc]_vars

====
